---- MODULE Spec2Model ----
(***************************************************************************)
(* Model of streamlit_app.py: the three API adapters (GeocodeAgent,        *)
(* WeatherAgent, PlacesAgent) and the orchestrator                         *)
(* TourismParentAgent.process_query driven by main().                      *)
(*                                                                         *)
(* JSON objects are functions whose DOMAIN is the set of keys present, so  *)
(* `'k' in d` is "k" \in DOMAIN d.  JSON arrays are sequences.  Optional   *)
(* values are sequences of length at most one (None is the empty one).     *)
(* Text that the code converts (float(...), str.title()) is a sequence of  *)
(* one-character strings; text that is only compared is a TLA+ string.     *)
(***************************************************************************)
EXTENDS Integers, Sequences, FiniteSets, TLC

VARIABLES
    pc,           \* position of main()/process_query: idle, resolve, weather, places, done
    place_name,   \* text_input value passed to process_query
    get_weather,  \* checkbox flag
    get_places,   \* checkbox flag
    location,     \* Optional[Location] returned by get_coordinates
    weather,      \* Optional[WeatherInfo] returned by get_weather
    places,       \* List[Place] returned by get_tourist_attractions
    ui,           \* sequence of display calls made during the current run
    calls,        \* sequence of adapter call/return events of the current run
    geo_resp,     \* Optional: HTTP response the geocoder request produced
    wx_resp,      \* Optional: HTTP response the weather request produced
    poi_resp,     \* Optional: HTTP response the places request produced
    ppc,          \* position inside get_tourist_attractions: request, loop, returned
    limit,        \* the limit argument of get_tourist_attractions
    idx,          \* number of elements the filter loop has consumed
    acc,          \* the local list `places` of the filter loop
    seen_names,   \* the local set `seen_names` of the filter loop
    ret,          \* value returned by get_tourist_attractions
    diags         \* number of st.error diagnostics get_tourist_attractions emitted

vars == <<pc, place_name, get_weather, get_places, location, weather, places,
          ui, calls, geo_resp, wx_resp, poi_resp,
          ppc, limit, idx, acc, seen_names, ret, diags>>

orchVars == <<pc, place_name, get_weather, get_places, location, weather, places,
              ui, calls, geo_resp, wx_resp>>

loopVars == <<ppc, limit, idx, acc, seen_names, ret, diags>>

(***************************************************************************)
(* Bounds of the model                                                     *)
(***************************************************************************)
MaxElems == 3       \* longest `elements` array explored for the filter loop
MaxLimit == 2       \* largest limit explored for the filter loop
MaxOrchElems == 1   \* longest `elements` array explored inside process_query

(***************************************************************************)
(* Optional values                                                         *)
(***************************************************************************)
None == <<>>
Some(x) == <<x>>

(***************************************************************************)
(* Text helpers                                                            *)
(***************************************************************************)
LowerChars == <<"a","b","c","d","e","f","g","h","i","j","k","l","m",
                "n","o","p","q","r","s","t","u","v","w","x","y","z">>
UpperChars == <<"A","B","C","D","E","F","G","H","I","J","K","L","M",
                "N","O","P","Q","R","S","T","U","V","W","X","Y","Z">>
DigitChars == <<"0","1","2","3","4","5","6","7","8","9">>

InSeq(c, s) == \E k \in 1..Len(s) : s[k] = c
IndexOf(c, s) == CHOOSE k \in 1..Len(s) : s[k] = c
IsCased(c) == InSeq(c, LowerChars) \/ InSeq(c, UpperChars)
ToUpper(c) == IF InSeq(c, LowerChars) THEN UpperChars[IndexOf(c, LowerChars)] ELSE c
ToLower(c) == IF InSeq(c, UpperChars) THEN LowerChars[IndexOf(c, UpperChars)] ELSE c

\* str.replace('_', ' ')
ReplaceUnderscore(s) == [k \in 1..Len(s) |-> IF s[k] = "_" THEN " " ELSE s[k]]

\* str.title(): a cased character is upper-cased when it starts a word
\* (the previous character is not cased) and lower-cased otherwise
Title(s) ==
    [k \in 1..Len(s) |->
        IF ~IsCased(s[k]) THEN s[k]
        ELSE IF k = 1 \/ ~IsCased(s[k-1]) THEN ToUpper(s[k])
        ELSE ToLower(s[k])]

\* float(text) raises ValueError unless the text is a number
IsNumeric(s) == Len(s) > 0 /\ \A k \in 1..Len(s) : InSeq(s[k], DigitChars)

RECURSIVE ParseFloat(_)
ParseFloat(s) ==
    IF Len(s) = 0 THEN 0
    ELSE 10 * ParseFloat(SubSeq(s, 1, Len(s) - 1)) + (IndexOf(s[Len(s)], DigitChars) - 1)

(***************************************************************************)
(* HTTP exchange: requests.get/post raises (connection error, timeout),    *)
(* raise_for_status() raises (non-success status), response.json() raises  *)
(* (unparsable body), or the parsed body is delivered.                     *)
(***************************************************************************)
FailKinds == {"conn_error", "http_error", "bad_json"}
Failed(kind) == [kind |-> kind, body |-> <<>>]
Ok(body) == [kind |-> "ok", body |-> body]

\* what an adapter hands back: its value and the number of st.error calls
Outcome(value, nerr) == [value |-> value, diag |-> nerr]

(***************************************************************************)
(* GeocodeAgent.get_coordinates                                            *)
(***************************************************************************)
\* except Exception: st.error("Geocoding error: ..."); return None
GeocodeError == Outcome(None, 1)

GetCoordinates(name, resp) ==
    IF resp.kind # "ok" THEN GeocodeError
    ELSE LET data == resp.body IN
         IF Len(data) = 0 THEN Outcome(None, 0)
         ELSE LET location_data == data[1] IN
              IF /\ "lat" \in DOMAIN location_data
                 /\ IsNumeric(location_data.lat)
                 /\ "lon" \in DOMAIN location_data
                 /\ IsNumeric(location_data.lon)
                 /\ "display_name" \in DOMAIN location_data
              THEN Outcome(Some([name |-> name,
                                 latitude |-> ParseFloat(location_data.lat),
                                 longitude |-> ParseFloat(location_data.lon),
                                 display_name |-> location_data.display_name]), 0)
              ELSE GeocodeError

(***************************************************************************)
(* WeatherAgent                                                            *)
(***************************************************************************)
weather_codes ==
    [c \in {0, 1, 2, 3, 45, 48, 51, 53, 55, 61, 63, 65, 71, 73, 75, 95} |->
        CASE c = 0 -> "clear sky"
          [] c = 1 -> "mainly clear"
          [] c = 2 -> "partly cloudy"
          [] c = 3 -> "overcast"
          [] c = 45 -> "foggy"
          [] c = 48 -> "foggy"
          [] c = 51 -> "light drizzle"
          [] c = 53 -> "moderate drizzle"
          [] c = 55 -> "dense drizzle"
          [] c = 61 -> "slight rain"
          [] c = 63 -> "moderate rain"
          [] c = 65 -> "heavy rain"
          [] c = 71 -> "slight snow"
          [] c = 73 -> "moderate snow"
          [] c = 75 -> "heavy snow"
          [] c = 95 -> "thunderstorm"]

\* mutation: the fallback of the table lookup is the first table entry
GetWeatherDescriptionNoFallback(code) ==
    IF code \in DOMAIN weather_codes THEN weather_codes[code] ELSE weather_codes[0]

GetWeatherDescription(code) ==
    IF code \in DOMAIN weather_codes THEN weather_codes[code] ELSE "unknown weather"

\* dict.get(key, default)
DictGet(d, key, default) == IF key \in DOMAIN d THEN d[key] ELSE default

EmptyDict == [k \in {} |-> 0]

\* mutation: the except block returns None without calling st.error
WeatherErrorSilent == Outcome(None, 0)

\* except Exception: st.error("Weather error: ..."); return None
WeatherError == Outcome(None, 1)

\* loc is the Optional[Location] argument; reading location.latitude of None
\* raises inside the try block
GetWeather(loc, resp) ==
    IF loc = None \/ resp.kind # "ok" THEN WeatherError
    ELSE LET data == resp.body
             current == DictGet(data, "current", EmptyDict)
             daily == DictGet(data, "daily", EmptyDict)
             rain_chance ==
                 IF "precipitation_probability_max" \in DOMAIN daily
                 THEN LET rain_probs == daily.precipitation_probability_max IN
                      IF Len(rain_probs) > 0 THEN rain_probs[1] ELSE 0
                 ELSE 0
             weather_code == DictGet(current, "weather_code", 0)
             description == GetWeatherDescription(weather_code)
         IN  Outcome(Some([temperature |-> DictGet(current, "temperature_2m", 0),
                           rain_chance |-> rain_chance,
                           weather_code |-> weather_code,
                           description |-> description]), 0)

(***************************************************************************)
(* PlacesAgent.get_tourist_attractions                                     *)
(***************************************************************************)
\* except Exception: st.error("Places error: ..."); return []
PlacesError == Outcome(<<>>, 1)

\* mutation: the center sub-structure is never consulted
ElementCoordsDirectOnly(element) ==
    IF "lat" \in DOMAIN element /\ "lon" \in DOMAIN element
    THEN [ctl |-> "ok", lat |-> element.lat, lon |-> element.lon]
    ELSE [ctl |-> "continue", lat |-> 0, lon |-> 0]

\* mutation: a center without lat or lon is skipped like a missing center
ElementCoordsLenient(element) ==
    IF "lat" \in DOMAIN element /\ "lon" \in DOMAIN element
    THEN [ctl |-> "ok", lat |-> element.lat, lon |-> element.lon]
    ELSE IF "center" \in DOMAIN element
              /\ "lat" \in DOMAIN element.center /\ "lon" \in DOMAIN element.center
    THEN [ctl |-> "ok", lat |-> element.center.lat, lon |-> element.center.lon]
    ELSE [ctl |-> "continue", lat |-> 0, lon |-> 0]

\* the if / elif / else that picks lat, lon; element['center']['lat'] raises
\* KeyError when the center has no such key
ElementCoords(element) ==
    IF "lat" \in DOMAIN element /\ "lon" \in DOMAIN element
    THEN [ctl |-> "ok", lat |-> element.lat, lon |-> element.lon]
    ELSE IF "center" \in DOMAIN element
    THEN IF "lat" \in DOMAIN element.center /\ "lon" \in DOMAIN element.center
         THEN [ctl |-> "ok", lat |-> element.center.lat, lon |-> element.center.lon]
         ELSE [ctl |-> "raise", lat |-> 0, lon |-> 0]
    ELSE [ctl |-> "continue", lat |-> 0, lon |-> 0]

\* mutation: the seen_names test is dropped
SkipNameNoDedup(name, seen) == name = ""

\* if not name or name in seen_names: continue
SkipName(name, seen) == name = "" \/ name \in seen

AttractionDefault == <<"a","t","t","r","a","c","t","i","o","n">>

\* tags.get('tourism', tags.get('historic', 'attraction')), normalised
AttractionType(tags) ==
    LET attraction_type ==
            DictGet(tags, "tourism", DictGet(tags, "historic", AttractionDefault))
    IN  Title(ReplaceUnderscore(attraction_type))

\* one pass through the body of the for loop; st holds places and seen_names,
\* ctl tells how the pass ended: next element, break, or an exception
LoopBody(st, element, lim) ==
    LET coords == ElementCoords(element) IN
    IF coords.ctl = "raise" THEN [places |-> st.places, seen |-> st.seen, ctl |-> "raise"]
    ELSE IF coords.ctl = "continue"
    THEN [places |-> st.places, seen |-> st.seen, ctl |-> "next"]
    ELSE LET tags == DictGet(element, "tags", EmptyDict)
             name == DictGet(tags, "name", "")
         IN  IF SkipName(name, st.seen)
             THEN [places |-> st.places, seen |-> st.seen, ctl |-> "next"]
             ELSE LET appended == Append(st.places,
                                         [name |-> name,
                                          type |-> AttractionType(tags),
                                          latitude |-> coords.lat,
                                          longitude |-> coords.lon])
                  IN  [places |-> appended,
                       seen |-> st.seen \cup {name},
                       ctl |-> IF Len(appended) >= lim THEN "break" ELSE "next"]

\* data.get('elements', [])
Elements(resp) == DictGet(resp.body, "elements", <<>>)

\* the for loop from element i+1 on, ending in `return places` or the except block
RECURSIVE RunLoop(_, _, _, _)
RunLoop(elements, i, st, lim) ==
    IF i >= Len(elements) THEN Outcome(st.places, 0)
    ELSE LET nxt == LoopBody(st, elements[i + 1], lim) IN
         IF nxt.ctl = "raise" THEN PlacesError
         ELSE IF nxt.ctl = "break" THEN Outcome(nxt.places, 0)
         ELSE RunLoop(elements, i + 1, nxt, lim)

\* loc is the Optional[Location] argument; formatting location.latitude of
\* None into the query raises inside the try block
GetTouristAttractions(loc, resp, lim) ==
    IF loc = None \/ resp.kind # "ok" THEN PlacesError
    ELSE RunLoop(Elements(resp), 0, [places |-> <<>>, seen |-> {}], lim)

(***************************************************************************)
(* Provider responses explored                                             *)
(***************************************************************************)
SeqsUpTo(S, n) == UNION {[1..k -> S] : k \in 0..n}

MaxMatches == 1     \* longest geocoder result array explored

GeoMatches ==
    { [lat |-> <<"4","8">>, lon |-> <<"2">>, display_name |-> "Paris, France"],
      [lat |-> <<"1","9">>, lon |-> <<"7","2">>, display_name |-> "Mumbai, India"],
      [lat |-> <<"4","8">>, display_name |-> "Paris, France"],
      [lat |-> <<"n","a","n","e">>, lon |-> <<"2">>, display_name |-> "Paris, France"],
      [lat |-> <<"4","8">>, lon |-> <<"2">>] }

GeoResponses ==
    {Failed(k) : k \in FailKinds} \cup {Ok(m) : m \in SeqsUpTo(GeoMatches, MaxMatches)}

WxCodes == {0, 3, 99}

WxCurrent ==
    {EmptyDict, [temperature_2m |-> 21]}
        \cup {[weather_code |-> c] : c \in WxCodes}
        \cup {[temperature_2m |-> 21, weather_code |-> c] : c \in WxCodes}

WxDaily ==
    {EmptyDict,
     [precipitation_probability_max |-> <<>>],
     [precipitation_probability_max |-> <<40, 10>>]}

\* a JSON object holding the keys whose Optional value is present
WxBody(cur, dly) ==
    [k \in (IF cur = None THEN {} ELSE {"current"}) \cup
           (IF dly = None THEN {} ELSE {"daily"}) |->
        IF k = "current" THEN cur[1] ELSE dly[1]]

WxResponses ==
    {Failed(k) : k \in FailKinds} \cup
    {Ok(WxBody(cur, dly)) : cur \in {None} \cup {Some(c) : c \in WxCurrent},
                            dly \in {None} \cup {Some(d) : d \in WxDaily}}

TagMuseum == <<"m","u","s","e","u","m">>
TagCastleWall == <<"c","a","s","t","l","e","_","w","a","l","l">>

PoiElements ==
    { [lat |-> 10, lon |-> 20, tags |-> [name |-> "Fort", tourism |-> TagMuseum]],
      [center |-> [lat |-> 11, lon |-> 21],
       tags |-> [name |-> "fort", historic |-> TagCastleWall]],
      [lat |-> 12, lon |-> 22,
       tags |-> [name |-> "Fort", tourism |-> TagMuseum, historic |-> TagCastleWall]],
      [tags |-> [name |-> "fort", tourism |-> TagMuseum]],
      [lat |-> 13, lon |-> 23],
      [center |-> [lat |-> 14], tags |-> [name |-> "Fort", tourism |-> TagMuseum]],
      [lat |-> 15, center |-> [lat |-> 16, lon |-> 26], tags |-> [name |-> "Gate"]],
      [lat |-> 17, lon |-> 27, tags |-> [name |-> "", tourism |-> TagMuseum]] }

PoiResponsesUpTo(n) ==
    {Failed(k) : k \in FailKinds} \cup {Ok(EmptyDict)} \cup
    {Ok([elements |-> e]) : e \in SeqsUpTo(PoiElements, n)}

(***************************************************************************)
(* main() and TourismParentAgent.process_query                             *)
(***************************************************************************)
PlaceNames == {"", "Paris"}

\* limit=5 passed by process_query
QueryLimit == 5

Event(agent, ev, loc) == [agent |-> agent, ev |-> ev, loc |-> loc]
Diag(n, what) == IF n > 0 THEN <<what>> ELSE <<>>

\* mutation: the places stage is written before the weather stage
NextStageSwapped(stage) ==
    CASE stage = "resolve" -> "places"
      [] stage = "places" -> "weather"
      [] stage = "weather" -> "done"

\* statement order of process_query
NextStage(stage) ==
    CASE stage = "resolve" -> "weather"
      [] stage = "weather" -> "places"
      [] stage = "places" -> "done"

\* mutation: the early return on a missing Location is lost
ReturnsEarlyNever(loc) == FALSE

\* if not location: st.error(...); return
ReturnsEarly(loc) == loc = None

\* the button handler of main(): an empty destination only warns, anything
\* else starts process_query on a fresh page
Submit ==
    /\ pc \in {"idle", "done"}
    /\ \E name \in PlaceNames, gw \in BOOLEAN, gp \in BOOLEAN :
        /\ place_name' = name
        /\ get_weather' = gw
        /\ get_places' = gp
        /\ IF name = ""
           THEN pc' = "idle" /\ ui' = <<"enter_destination">>
           ELSE pc' = "resolve" /\ ui' = <<>>
    /\ location' = None
    /\ weather' = None
    /\ places' = <<>>
    /\ calls' = <<>>
    /\ geo_resp' = None
    /\ wx_resp' = None
    /\ poi_resp' = None
    /\ UNCHANGED loopVars

\* get_coordinates, then the not-found return or the success notice
ResolveStage ==
    /\ pc = "resolve"
    /\ \E resp \in GeoResponses :
        LET out == GetCoordinates(place_name, resp) IN
        /\ geo_resp' = Some(resp)
        /\ location' = out.value
        /\ calls' = calls \o <<Event("geocode", "call", None),
                               Event("geocode", "return", out.value)>>
        /\ IF ReturnsEarly(out.value)
           THEN /\ ui' = ui \o Diag(out.diag, "geocode_error") \o <<"not_found">>
                /\ pc' = "done"
           ELSE /\ ui' = ui \o Diag(out.diag, "geocode_error") \o <<"success">>
                /\ pc' = NextStage("resolve")
    /\ UNCHANGED <<place_name, get_weather, get_places, weather, places,
                   wx_resp, poi_resp>>
    /\ UNCHANGED loopVars

\* `if <run>:` get_weather and, when it returned a WeatherInfo, the weather panel
WeatherStageBody(run) ==
    /\ pc = "weather"
    /\ IF run
       THEN \E resp \in WxResponses :
               LET out == GetWeather(location, resp) IN
               /\ wx_resp' = Some(resp)
               /\ weather' = out.value
               /\ calls' = calls \o <<Event("weather", "call", location),
                                      Event("weather", "return", location)>>
               /\ ui' = ui \o Diag(out.diag, "weather_error")
                          \o (IF out.value # None THEN <<"weather_panel">> ELSE <<>>)
       ELSE UNCHANGED <<wx_resp, weather, calls, ui>>
    /\ pc' = NextStage("weather")
    /\ UNCHANGED <<place_name, get_weather, get_places, location, places,
                   geo_resp, poi_resp>>
    /\ UNCHANGED loopVars

\* mutation: the weather stage is an alternative of the places stage
WeatherStageUnlessPlaces == WeatherStageBody(get_weather /\ ~get_places)

WeatherStage == WeatherStageBody(get_weather)

\* `if <run>:` get_tourist_attractions, then the places panel or the warning
PlacesStageBody(run) ==
    /\ pc = "places"
    /\ IF run
       THEN \E resp \in PoiResponsesUpTo(MaxOrchElems) :
               LET out == GetTouristAttractions(location, resp, QueryLimit) IN
               /\ poi_resp' = Some(resp)
               /\ places' = out.value
               /\ calls' = calls \o <<Event("places", "call", location),
                                      Event("places", "return", location)>>
               /\ ui' = ui \o Diag(out.diag, "places_error")
                          \o (IF Len(out.value) > 0 THEN <<"places_panel">>
                              ELSE <<"no_attractions">>)
       ELSE UNCHANGED <<poi_resp, places, calls, ui>>
    /\ pc' = NextStage("places")
    /\ UNCHANGED <<place_name, get_weather, get_places, location, weather,
                   geo_resp, wx_resp>>
    /\ UNCHANGED loopVars

\* mutation: the places stage runs only after a successful weather lookup
PlacesStageIfWeather == PlacesStageBody(get_places /\ weather # None)

PlacesStage == PlacesStageBody(get_places)

Init ==
    /\ pc = "idle"
    /\ place_name = ""
    /\ get_weather = TRUE
    /\ get_places = TRUE
    /\ location = None
    /\ weather = None
    /\ places = <<>>
    /\ ui = <<>>
    /\ calls = <<>>
    /\ geo_resp = None
    /\ wx_resp = None
    /\ poi_resp = None
    /\ ppc = "request"
    /\ limit = QueryLimit
    /\ idx = 0
    /\ acc = <<>>
    /\ seen_names = {}
    /\ ret = <<>>
    /\ diags = 0

Next == Submit \/ ResolveStage \/ WeatherStage \/ PlacesStage

Spec == Init /\ [][Next]_vars

(***************************************************************************)
(* get_tourist_attractions step by step: the request, each pass of the     *)
(* filter loop, and the return after the last element                      *)
(***************************************************************************)
ArgLocation ==
    [name |-> "Paris", latitude |-> 48, longitude |-> 2, display_name |-> "Paris, France"]

PlacesRequest ==
    /\ ppc = "request"
    /\ \E resp \in PoiResponsesUpTo(MaxElems) :
        /\ poi_resp' = Some(resp)
        /\ IF location = None \/ resp.kind # "ok"
           THEN /\ ret' = PlacesError.value
                /\ diags' = diags + PlacesError.diag
                /\ ppc' = "returned"
           ELSE /\ ppc' = "loop"
                /\ UNCHANGED <<ret, diags>>
    /\ idx' = 0
    /\ acc' = <<>>
    /\ seen_names' = {}
    /\ UNCHANGED limit
    /\ UNCHANGED orchVars

LoopIter ==
    /\ ppc = "loop"
    /\ idx < Len(Elements(poi_resp[1]))
    /\ LET nxt == LoopBody([places |-> acc, seen |-> seen_names],
                           Elements(poi_resp[1])[idx + 1], limit) IN
        /\ idx' = idx + 1
        /\ acc' = nxt.places
        /\ seen_names' = nxt.seen
        /\ IF nxt.ctl = "raise"
           THEN /\ ret' = PlacesError.value
                /\ diags' = diags + PlacesError.diag
                /\ ppc' = "returned"
           ELSE IF nxt.ctl = "break"
           THEN /\ ret' = nxt.places
                /\ ppc' = "returned"
                /\ UNCHANGED diags
           ELSE UNCHANGED <<ret, diags, ppc>>
    /\ UNCHANGED <<limit, poi_resp>>
    /\ UNCHANGED orchVars

LoopExit ==
    /\ ppc = "loop"
    /\ idx >= Len(Elements(poi_resp[1]))
    /\ ret' = acc
    /\ ppc' = "returned"
    /\ UNCHANGED <<limit, idx, acc, seen_names, diags, poi_resp>>
    /\ UNCHANGED orchVars

InitPlaces ==
    /\ pc = "idle"
    /\ place_name = ""
    /\ get_weather = TRUE
    /\ get_places = TRUE
    /\ location = Some(ArgLocation)
    /\ weather = None
    /\ places = <<>>
    /\ ui = <<>>
    /\ calls = <<>>
    /\ geo_resp = None
    /\ wx_resp = None
    /\ poi_resp = None
    /\ ppc = "request"
    /\ limit \in 0..MaxLimit
    /\ idx = 0
    /\ acc = <<>>
    /\ seen_names = {}
    /\ ret = <<>>
    /\ diags = 0

NextPlaces == PlacesRequest \/ LoopIter \/ LoopExit

SpecPlaces == InitPlaces /\ [][NextPlaces]_vars

(***************************************************************************)
(* Vocabulary of the properties                                            *)
(***************************************************************************)
Shown(what) == \E k \in 1..Len(ui) : ui[k] = what
TimesShown(what) == Cardinality({k \in 1..Len(ui) : ui[k] = what})
CallsOf(agent) == {k \in 1..Len(calls) : calls[k].agent = agent /\ calls[k].ev = "call"}
Called(agent) == CallsOf(agent) # {}
RanAllRequested == (get_weather => Called("weather")) /\ (get_places => Called("places"))
RequestFailed(r) == r # None /\ r[1].kind \in FailKinds
Max(a, b) == IF a >= b THEN a ELSE b
Min(a, b) == IF a <= b THEN a ELSE b
Take(s, n) == SubSeq(s, 1, Min(n, Len(s)))

\* reference reading of a points-of-interest candidate
RefHasCoords(e) == ("lat" \in DOMAIN e /\ "lon" \in DOMAIN e) \/ "center" \in DOMAIN e
RefMalformed(e) ==
    /\ ~("lat" \in DOMAIN e /\ "lon" \in DOMAIN e)
    /\ "center" \in DOMAIN e
    /\ ~("lat" \in DOMAIN e.center /\ "lon" \in DOMAIN e.center)
RefName(e) ==
    IF "tags" \in DOMAIN e /\ "name" \in DOMAIN e.tags THEN e.tags.name ELSE ""
RefValid(e) == RefHasCoords(e) /\ RefName(e) # ""
RefPlace(e) ==
    LET direct == "lat" \in DOMAIN e /\ "lon" \in DOMAIN e IN
    [name |-> RefName(e),
     type |-> AttractionType(e.tags),
     latitude |-> IF direct THEN e.lat ELSE e.center.lat,
     longitude |-> IF direct THEN e.lon ELSE e.center.lon]
\* candidate k is the first one with coordinates and its name
RefFirst(elements, k) ==
    /\ RefValid(elements[k])
    /\ \A j \in 1..(k - 1) :
          ~(RefValid(elements[j]) /\ RefName(elements[j]) = RefName(elements[k]))
RefCount(elements, k) == Cardinality({j \in 1..k : RefFirst(elements, j)})
RECURSIVE RefList(_, _)
RefList(elements, k) ==
    IF k = 0 THEN <<>>
    ELSE RefList(elements, k - 1)
            \o (IF RefFirst(elements, k) THEN <<RefPlace(elements[k])>> ELSE <<>>)
WellFormed(elements) == \A k \in 1..Len(elements) : ~RefMalformed(elements[k])
FirstMalformed(elements, k) ==
    /\ RefMalformed(elements[k])
    /\ \A j \in 1..(k - 1) : ~RefMalformed(elements[j])
NoDupNames(ps) == \A i, j \in 1..Len(ps) : ps[i].name = ps[j].name => i = j

\* a geocoder match that has every consumed field in usable form
RefGoodMatch(m) ==
    /\ {"lat", "lon", "display_name"} \subseteq DOMAIN m
    /\ IsNumeric(m.lat) /\ IsNumeric(m.lon)
GeoFailed(r) == r.kind \in FailKinds \/ (Len(r.body) > 0 /\ ~RefGoodMatch(r.body[1]))
PoiFailed(r, lim) ==
    \/ r.kind \in FailKinds
    \/ \E k \in 1..Len(Elements(r)) :
          /\ FirstMalformed(Elements(r), k)
          /\ RefCount(Elements(r), k - 1) < Max(lim, 1)

(***************************************************************************)
(* Properties of process_query (checked under Spec)                        *)
(***************************************************************************)
\* C1: when the geocode lookup yields no Location the query stops right
\* after the not-found notice, for every combination of the flags: no
\* weather or places lookup, no success notice, no panel, no warning.
C1_NotFoundStops ==
    (geo_resp # None /\ location = None) =>
        /\ pc = "done"
        /\ ~Called("weather") /\ ~Called("places")
        /\ wx_resp = None /\ poi_resp = None
        /\ Len(ui) > 0 /\ ui[Len(ui)] = "not_found"
        /\ \A what \in {"success", "weather_panel", "places_panel", "no_attractions",
                        "weather_error", "places_error"} : ~Shown(what)

C1_Witness ==
    /\ pc = "done" /\ get_weather /\ get_places
    /\ geo_resp = Some(Ok(<<>>)) /\ location = None
    /\ ui = <<"not_found">>

\* C2 as stated: only a geocoder answer with zero matches ends a query
\* early; after a failed geocoder request the requested stages still run.
C2_OnlyZeroMatchesEndsEarly ==
    (pc = "done" /\ geo_resp # None) =>
        /\ Shown("not_found") => geo_resp = Some(Ok(<<>>))
        /\ RequestFailed(geo_resp) => RanAllRequested

\* C2 amended: a query ends early exactly when the geocode lookup returns no
\* Location (zero matches or a failed geocoder request); a failed weather or
\* places request only suppresses its own panel and every requested stage
\* still runs.
C2_OnlyMissingLocationEndsEarly ==
    (pc = "done" /\ geo_resp # None) =>
        /\ Shown("not_found") <=> location = None
        /\ (geo_resp = Some(Ok(<<>>)) \/ GeoFailed(geo_resp[1])) => Shown("not_found")
        /\ location # None =>
            /\ RanAllRequested
            /\ RequestFailed(wx_resp) => ~Shown("weather_panel")
            /\ RequestFailed(poi_resp) =>
                  /\ ~Shown("places_panel")
                  /\ (get_weather /\ ~RequestFailed(wx_resp)) => Shown("weather_panel")

C2_Witness ==
    /\ pc = "done" /\ get_weather /\ get_places /\ location # None
    /\ RequestFailed(wx_resp) /\ Called("places") /\ Shown("places_panel")

\* C5: the places lookup is invoked exactly when a Location was returned and
\* get_places is true, whatever get_weather and the weather outcome; the
\* weather lookup exactly when a Location was returned and get_weather is true.
C5_StagesFollowFlags ==
    /\ pc = "done" => (Called("places") <=> (location # None /\ get_places))
    /\ pc \in {"places", "done"} => (Called("weather") <=> (location # None /\ get_weather))

C5_Witness ==
    /\ pc = "done" /\ get_weather /\ get_places
    /\ wx_resp # None /\ weather = None
    /\ Called("places")

\* C6: the adapter calls happen in the order geocode, weather, places: the
\* geocode lookup exactly once and first, the other two at most once, the
\* weather lookup has returned before the places lookup starts, and both
\* get the Location the geocode call returned.
C6_FixedOrder ==
    /\ pc \in {"idle", "resolve"} => calls = <<>>
    /\ pc \in {"weather", "places", "done"} =>
        /\ Cardinality(CallsOf("geocode")) = 1
        /\ calls[1] = Event("geocode", "call", None)
        /\ calls[2].agent = "geocode" /\ calls[2].ev = "return"
    /\ Cardinality(CallsOf("weather")) <= 1
    /\ Cardinality(CallsOf("places")) <= 1
    /\ \A i, j \in 1..Len(calls) :
          (calls[i].agent = "weather" /\ calls[j].agent = "places") => i < j
    /\ \A i \in CallsOf("weather") \cup CallsOf("places") :
          calls[i].loc # None /\ calls[i].loc = calls[2].loc /\ calls[i].loc = location

C6_Witness ==
    /\ pc = "done" /\ Len(calls) = 6
    /\ calls[3].agent = "weather" /\ calls[5].agent = "places"

\* C7: an adapter emits a diagnostic exactly when its request fails and then
\* returns its absence value; zero geocoder matches give None without a
\* diagnostic and a places response without an accepted candidate gives an
\* empty list without a diagnostic.
C7_DiagnosticIffFailure ==
    /\ geo_resp # None =>
        /\ TimesShown("geocode_error") = (IF GeoFailed(geo_resp[1]) THEN 1 ELSE 0)
        /\ (GeoFailed(geo_resp[1]) \/ geo_resp = Some(Ok(<<>>))) <=> location = None
    /\ geo_resp = None => ~Shown("geocode_error")
    /\ wx_resp # None =>
        /\ TimesShown("weather_error") = (IF RequestFailed(wx_resp) THEN 1 ELSE 0)
        /\ RequestFailed(wx_resp) <=> weather = None
    /\ wx_resp = None => ~Shown("weather_error")
    /\ poi_resp # None =>
        /\ TimesShown("places_error")
              = (IF PoiFailed(poi_resp[1], QueryLimit) THEN 1 ELSE 0)
        /\ PoiFailed(poi_resp[1], QueryLimit) => places = <<>>
        /\ (~PoiFailed(poi_resp[1], QueryLimit)
              /\ RefList(Elements(poi_resp[1]), Len(Elements(poi_resp[1]))) = <<>>)
            => places = <<>>
    /\ poi_resp = None => ~Shown("places_error")

C7_Witness ==
    /\ pc = "done"
    /\ RequestFailed(wx_resp) /\ weather = None /\ TimesShown("weather_error") = 1
    /\ poi_resp # None /\ poi_resp[1].kind = "ok" /\ Len(Elements(poi_resp[1])) = 1
    /\ places = <<>> /\ ~Shown("places_error")

\* C8: the description of a parsed weather response is the table phrase of
\* its weather_code for an enumerated code and "unknown weather" otherwise;
\* code 0 and a response without weather_code both give "clear sky".
C8_Description ==
    (wx_resp # None /\ wx_resp[1].kind = "ok") =>
        LET body == wx_resp[1].body
            has == "current" \in DOMAIN body /\ "weather_code" \in DOMAIN body.current
            code == IF has THEN body.current.weather_code ELSE 0
        IN  /\ weather # None
            /\ weather[1].weather_code = code
            /\ code = 0 => weather[1].description = "clear sky"
            /\ code = 3 => weather[1].description = "overcast"
            /\ code \in DOMAIN weather_codes => weather[1].description = weather_codes[code]
            /\ code \notin {0, 1, 2, 3, 45, 48, 51, 53, 55, 61, 63, 65, 71, 73, 75, 95}
                  => weather[1].description = "unknown weather"

C8_Witness ==
    /\ wx_resp # None /\ wx_resp[1].kind = "ok"
    /\ "current" \in DOMAIN wx_resp[1].body
    /\ "weather_code" \in DOMAIN wx_resp[1].body.current
    /\ wx_resp[1].body.current.weather_code = 99
    /\ weather # None /\ weather[1].description = "unknown weather"

(***************************************************************************)
(* Properties of get_tourist_attractions (checked under SpecPlaces)        *)
(***************************************************************************)
\* C3: for every limit >= 0 and every provider response the returned list
\* has at most limit entries.
C3_AtMostLimit == ppc = "returned" => Len(ret) <= limit

\* C4: the returned list never holds two places with the same name, and at
\* every step of the filter loop the accepted names are pairwise distinct
\* and all contained in seen_names.
C4_UniqueNames ==
    /\ NoDupNames(acc)
    /\ \A k \in 1..Len(acc) : acc[k].name \in seen_names
    /\ ppc = "returned" => NoDupNames(ret)

C4_Witness ==
    /\ ppc = "returned" /\ Len(ret) = 2 /\ idx = 3
    /\ \E i, j \in 1..3 :
          /\ i < j
          /\ RefValid(Elements(poi_resp[1])[i]) /\ RefValid(Elements(poi_resp[1])[j])
          /\ RefName(Elements(poi_resp[1])[i]) = RefName(Elements(poi_resp[1])[j])

\* C9: for a well-formed response and limit >= 1 the returned list is the
\* reference result: candidates in response order that have coordinates and
\* a non-empty name, first candidate per name only, cut to the first limit.
C9_ReferenceResult ==
    (ppc = "returned" /\ poi_resp[1].kind = "ok" /\ limit >= 1
        /\ WellFormed(Elements(poi_resp[1]))) =>
        /\ ret = Take(RefList(Elements(poi_resp[1]), Len(Elements(poi_resp[1]))), limit)
        /\ diags = 0

C9_Witness ==
    /\ ppc = "returned" /\ poi_resp[1].kind = "ok" /\ limit = 1
    /\ WellFormed(Elements(poi_resp[1]))
    /\ Len(RefList(Elements(poi_resp[1]), Len(Elements(poi_resp[1])))) = 2
    /\ Len(ret) = 1
    /\ "center" \in DOMAIN Elements(poi_resp[1])[idx]

\* C10: a malformed candidate reached before the limit is met fails the
\* whole lookup (empty list, one diagnostic, earlier accepted places
\* discarded); one that comes after the limit-th accepted place has no effect.
C10_MalformedFailsLookup ==
    (ppc = "returned" /\ poi_resp[1].kind = "ok") =>
        LET elements == Elements(poi_resp[1]) IN
        /\ \A k \in 1..Len(elements) :
              (FirstMalformed(elements, k) /\ RefCount(elements, k - 1) < limit)
                  => (ret = <<>> /\ diags = 1 /\ idx = k)
        /\ \A k \in 1..Len(elements) :
              (/\ RefFirst(elements, k)
               /\ RefCount(elements, k) = limit
               /\ \A j \in 1..k : ~RefMalformed(elements[j]))
                  => (ret = RefList(elements, k) /\ diags = 0 /\ idx = k)

C10_Witness ==
    /\ ppc = "returned" /\ poi_resp[1].kind = "ok"
    /\ idx >= 2 /\ RefMalformed(Elements(poi_resp[1])[idx])
    /\ limit = 2 /\ RefCount(Elements(poi_resp[1]), idx - 1) = 1
    /\ ret = <<>> /\ diags = 1

====
